---------------------------- MODULE Spec2Model ----------------------------
(***************************************************************************)
(* A model of pyscf/soscf/m3soscf.py: the M3SOSCF population solver        *)
(* (class M3SOSCF), its local optimizers (class Subconverger) and the      *)
(* reassignment policy (class SubconvergerReassigmentManager).             *)
(*                                                                         *)
(* Numbers.  A float is a fixed-point integer: v stands for v / TOne.      *)
(* Results of float arithmetic are rounded to the nearest representable    *)
(* value, and a positive exact result never rounds to 0 (doubles do not    *)
(* underflow within the ranges of the model).  NaN is the IEEE             *)
(* not-a-number: every comparison with it is false and every arithmetic    *)
(* result on it is NaN.                                                    *)
(*                                                                         *)
(* Coefficient matrices.  A finite matrix on the rotation manifold is a    *)
(* point 0 .. NCoef-1.  ZeroC is the all-zero matrix numpy.zeros leaves    *)
(* in an unwritten ring position, NaNC a matrix with non-finite entries,   *)
(* FarC an oracle result so far from its base that the density distance    *)
(* overflows (trust exactly 0), NoneC is Python's None.                    *)
(***************************************************************************)
EXTENDS Integers, Sequences, FiniteSets

\* ------------------------------------------------------------------ bounds
\* Largest number of subconvergers (threads) of a configuration.
MaxThreads == 3
\* Largest ring depth (memSize) of a configuration.
MaxMem == 2
\* Number of finite coefficient points.
NCoef == 2
\* The cycle budget mf.max_cycle of every configuration.
MaxCycle == 3
\* The number of converge() calls made on one object.
MaxRuns == 2

\* ------------------------------------------------------------ float model
\* The fixed-point representation of 1.0.
TOne == 16
\* The energy difference of neighbouring points, 0.25 hartree.
EStep == 4
\* IEEE not-a-number: a value outside the range of every finite result.
NaN == -9999999
\* numpy.finfo(numpy.float32).max, the energy written into a purged slot.
FltMax == 1000000

IsNaN(x) == x = NaN
Lt(a, b) == ~IsNaN(a) /\ ~IsNaN(b) /\ a < b
Le(a, b) == ~IsNaN(a) /\ ~IsNaN(b) /\ a <= b
Gt(a, b) == Lt(b, a)
Ge(a, b) == Le(b, a)

RECURSIVE Pow(_, _)
Pow(b, n) == IF n = 0 THEN 1 ELSE b * Pow(b, n - 1)

\* num/den (both >= 0, den > 0) rounded to nearest; positive stays positive.
RoundPos(num, den) ==
    IF num = 0 THEN 0
    ELSE LET r == (2 * num + den) \div (2 * den) IN IF r = 0 THEN 1 ELSE r

SetMin(S) == CHOOSE x \in S : \A y \in S : x <= y
SetMax(S) == CHOOSE x \in S : \A y \in S : x >= y
Abs(x) == IF x < 0 THEN -x ELSE x

\* ------------------------------------------------------ coefficient values
ZeroC == -3
NaNC == -1
FarC == -2
NoneC == -4


\* ------------------------------------------------------------------ state
VARIABLES
    threads,               \* self.threads = len(self.subconvergers)
    memSize,               \* len(self.mo_coeffs) = len(self.current_trusts)
    purge_subconvergers,   \* purge fraction, in units of 1 / PurgeDen
    convergence_thresh,    \* 10 ** -convergence, fixed-point
    mem_scale,             \* subconverger_rm.mem_scale, a pair <<num, den>>
    max_cycle,             \* self.max_cycle = mf.max_cycle
    method,                \* self.method
    nr,                    \* the oracle: one Newton step per finite base point
    mo_basis_coeff,        \* self.mo_basis_coeff, the initial guess
    guess,                 \* the shape of the initial guess against the overlap matrix
    purgeSolvers,          \* self.purgeSolvers, the attribute set() writes
    _purgeSolvers,         \* self._purgeSolvers, the attribute kernel() writes
    mo_coeffs,             \* self.mo_coeffs[ring position][slot]
    current_trusts,        \* self.current_trusts[ring position][slot]
    current_energies,      \* self.current_energies[slot]
    subconverger_indices,  \* self.subconverger_indices[agent]
    mo_cursor,             \* self.mo_cursor
    sc_mo_coeffs,          \* self.subconvergers[agent].mo_coeffs
    mf,                    \* the wrapped solver: converged, mo_energy, mo_coeff, e_tot
    pc,                    \* position in converge()
    recorded_trusts,       \* the trust rows as the cycles that committed them left them
    last_write,            \* the ring position the last finished cycle committed to
    run,                   \* the number of converge() calls started on the object
    cycle,                 \* loop variable of converge()
    j,                     \* loop variable of the agent loop
    purge_indices,         \* local purge_indices of the cycle ({} for None)
    newMoCoeffs,           \* local buffer newMoCoeffs
    sorted_trusts,         \* local sorted_trusts
    scf_conv,              \* local scf_conv
    final_mo_coeffs,       \* local final_mo_coeffs
    final_mo_energy,       \* local final_mo_energy
    final_energy,          \* local final_energy
    winner_energy,         \* the energy the last cycle logged for its highest-trust slot
    disregarded,           \* the cycle logged "DISREGARDING SOLUTION DUE TO NON VARIATIONALITY"
    error                  \* the exception that left converge(), "" if none

cfgvars == <<threads, memSize, purge_subconvergers, convergence_thresh, mem_scale,
             max_cycle, method, nr, mo_basis_coeff, guess, purgeSolvers, _purgeSolvers>>
poolvars == <<mo_coeffs, current_trusts, current_energies, subconverger_indices,
              mo_cursor, sc_mo_coeffs>>
localvars == <<cycle, j, purge_indices, newMoCoeffs, sorted_trusts>>
resultvars == <<scf_conv, final_mo_coeffs, final_mo_energy, final_energy, mf,
                disregarded, winner_energy>>
vars == <<cfgvars, poolvars, localvars, resultvars, pc, recorded_trusts, last_write,
          run, error>>

Slots == 0 .. (threads - 1)
Ring == 0 .. (memSize - 1)

\* ----------------------------------------------------------------- oracle
\* The finite coefficient matrices: the points the oracle is defined on.
Coef == DOMAIN nr

\* What a row of mo_coeffs can hold.
StoredCoef == Coef \cup {ZeroC, NaNC}

\* The oracles over n points: a Newton step from a finite base point yields
\* a point, a finite matrix infinitely far away, or a non-finite matrix.
Landscape(n) == 0 .. (n - 1)
Oracles(n) == [Landscape(n) -> Landscape(n) \cup {FarC, NaNC}]

\* newton.kernel(mo_coeff, mo_occ) with max_cycle = 1: deterministic; a base
\* that is not a finite manifold point yields a non-finite result.
oneNewtonStep(base) == IF base \in Coef THEN nr[base] ELSE NaNC

\* mf.energy_elec(mf.make_rdm1(c, mo_occ))[0]: point c lies c * 0.25 hartree
\* above point 0; the all-zero matrix has the zero density.
energy_elec(c) ==
    IF c \in Coef THEN c * EStep ELSE IF c = ZeroC THEN 0 ELSE NaN

\* numpy.linalg.norm(dm1 - dm0) * trust_scale, in units of 1.0.
DensityDistance(c0, c1) == Abs(c1 - c0)

\* calculateOrbitalEnergies / mf.energy_tot of a finite point: the orbital
\* energies and the total energy are functions of the coefficients.
calculateOrbitalEnergies(c) == c
energy_tot(c) == energy_elec(c)

\* --------------------------------------------------------- Subconverger
\* numpy.e ** (-x) for x = q * 0.25 hartree, as a fraction <<num, den>>:
\* e ** -0.25 = 0.78.
ExpNeg(q) == <<Pow(39, q), Pow(50, q)>>

\* Subconverger.auxilliaryXi, as a fraction.
auxilliaryXi(x) == IF x <= 0 THEN <<1, 1>> ELSE ExpNeg(x \div EStep)

\* Subconverger.getTrust(dm0, dm1, converged) for base c0 and step result c1.
getTrust(c0, c1) ==
    IF c0 \notin Coef \/ c1 = NaNC THEN NaN
    ELSE IF c1 = FarC THEN 0
    ELSE LET l  == DensityDistance(c0, c1)
             xi == auxilliaryXi(energy_elec(c1) - energy_elec(c0))
         IN  RoundPos(TOne * xi[1], (l + 1) * (l + 1) * xi[2])

\* Subconverger.getLocalSolAndTrust: <<sol, trust>> from the agent's base.
getLocalSolAndTrust(base) ==
    LET sol == oneNewtonStep(base) IN <<sol, getTrust(base, sol)>>

\* ----------------------------------------------------------- numpy helpers
\* Sort key of a float: NaN sorts last.
SortKey(x) == IF IsNaN(x) THEN FltMax + 1 ELSE x

\* numpy.argsort of f over the index set S (stable for these sizes).
RECURSIVE ArgSort(_, _)
ArgSort(f, S) ==
    IF S = {} THEN <<>>
    ELSE LET m == CHOOSE i \in S : \A k \in S :
                     \/ SortKey(f[i]) < SortKey(f[k])
                     \/ (SortKey(f[i]) = SortKey(f[k]) /\ i <= k)
         IN  <<m>> \o ArgSort(f, S \ {m})

\* numpy.argmax of f over S: the first NaN if there is one, else the first
\* largest entry.
ArgMax(f, S) ==
    IF \E i \in S : IsNaN(f[i])
    THEN SetMin({i \in S : IsNaN(f[i])})
    ELSE SetMin({i \in S : \A k \in S : f[i] >= f[k]})

\* numpy.min of f over S: NaN if any entry is NaN.
NpMin(f, S) ==
    IF \E i \in S : IsNaN(f[i]) THEN NaN ELSE SetMin({f[i] : i \in S})

\* 1 - t ** 4 < convergence_thresh.
TrustConverged(t) ==
    ~IsNaN(t) /\ Pow(TOne, 4) - Pow(t, 4) < convergence_thresh * Pow(TOne, 3)

\* ---------------------------------------------------------------- cursors
\* A read cursor that wraps to position 0 instead of the last ring position.
readCursorNoWrap ==
    IF cycle = 0 THEN 0
    ELSE IF mo_cursor - 1 < 0 THEN 0 ELSE mo_cursor - 1

\* writeCursor and readCursor of the current cycle (lines 316-323).
writeCursor == IF cycle = 0 THEN 0 ELSE mo_cursor
readCursor ==
    IF cycle = 0 THEN 0
    ELSE IF mo_cursor - 1 < 0 THEN memSize - 1 ELSE mo_cursor - 1

\* ------------------------------------------------------------------- init
PurgeDen == 2
PurgeFractions == 0 .. PurgeDen
ThreshValues == {1}
MemScales == {<<1, 5>>}

\* The state M3SOSCF.__init__ leaves, whatever the configuration.
InitPool ==
    /\ mo_coeffs = [r \in Ring |-> [s \in Slots |-> ZeroC]]
    /\ current_trusts = [r \in Ring |-> [s \in Slots |-> 0]]
    /\ current_energies = [s \in Slots |-> 0]
    /\ subconverger_indices = [a \in Slots |-> a]
    /\ mo_cursor = 0
    /\ sc_mo_coeffs = [a \in Slots |-> NoneC]
    /\ purgeSolvers = NoneC
    /\ _purgeSolvers = NoneC
    /\ pc = "init"
    /\ run = 1
    /\ last_write = 0
    /\ recorded_trusts = [r \in Ring |-> [s \in Slots |-> 0]]
    /\ cycle = 0
    /\ j = 0
    /\ purge_indices = {}
    /\ newMoCoeffs = [s \in Slots |-> ZeroC]
    /\ sorted_trusts = <<>>
    /\ scf_conv = FALSE
    /\ disregarded = FALSE
    /\ winner_energy = NaN
    /\ final_mo_coeffs = NoneC
    /\ final_mo_energy = NoneC
    /\ final_energy = 0
    /\ error = ""

\* A mean-field object that was never solved, or one an earlier SCF solved.
MeanFields ==
    {[converged |-> FALSE, mo_energy |-> e, mo_coeff |-> e, e_tot |-> 0] :
        e \in {NoneC, 0}}

\* The initial guess the constructor accepted: of the shape of the overlap
\* matrix ("valid"), of a shape numpy cannot assign to a slot ("mismatch"),
\* or of a wrong shape numpy broadcasts to a slot, such as one row
\* ("broadcast").
Guesses == {"valid", "mismatch", "broadcast"}

\* Every configuration over a landscape of NCoef points.
Init ==
    /\ threads \in 1 .. MaxThreads
    /\ memSize \in 1 .. MaxMem
    /\ purge_subconvergers \in PurgeFractions
    /\ convergence_thresh \in ThreshValues
    /\ mem_scale \in MemScales
    /\ max_cycle = MaxCycle
    /\ method \in {"rhf", "uhf"}
    /\ nr \in Oracles(NCoef)
    /\ mo_basis_coeff \in Coef
    /\ guess \in Guesses
    /\ mf \in MeanFields
    /\ InitPool

\* Two agents over a ring of depth 1, every purge fraction.
InitKernel ==
    /\ threads = 2
    /\ memSize = 1
    /\ purge_subconvergers \in PurgeFractions
    /\ convergence_thresh \in ThreshValues
    /\ mem_scale \in MemScales
    /\ max_cycle = MaxCycle
    /\ method = "uhf"
    /\ nr \in Oracles(NCoef)
    /\ mo_basis_coeff \in Coef
    /\ guess \in Guesses
    /\ mf \in MeanFields
    /\ InitPool

\* The full pool (MaxThreads agents, MaxMem ring positions, unrestricted
\* method) over a landscape of NCoef + 1 points whose highest point is
\* stationary, started from the lowest point with a mean-field object that
\* was never solved and with no forced purge.
InitStationary ==
    /\ threads = MaxThreads
    /\ memSize = MaxMem
    /\ purge_subconvergers = 0
    /\ convergence_thresh \in ThreshValues
    /\ mem_scale \in MemScales
    /\ max_cycle = MaxCycle
    /\ method = "uhf"
    /\ nr \in {f \in Oracles(NCoef + 1) : f[NCoef] = NCoef}
    /\ mo_basis_coeff = 0
    /\ guess \in Guesses
    /\ mf \in {m \in MeanFields : m.mo_energy = NoneC}
    /\ InitPool

\* Two agents on a ring one position deeper than MaxMem, with one cycle more
\* per run and a memory scale of 0.5, over a landscape of NCoef points: the
\* ring is deep enough for a snapshot to reach age 2.
InitDeepRing ==
    /\ threads = 2
    /\ memSize = MaxMem + 1
    /\ purge_subconvergers \in PurgeFractions
    /\ convergence_thresh \in ThreshValues
    /\ mem_scale = <<1, 2>>
    /\ max_cycle = MaxCycle + 1
    /\ method = "uhf"
    /\ nr \in Oracles(NCoef)
    /\ mo_basis_coeff \in Coef
    /\ guess \in Guesses
    /\ mf \in MeanFields
    /\ InitPool


\* ------------------------------------------------------- converge(): start
\* Lines 266-310: slot 0 is seeded with the initial guess, slots 1..N-1 with
\* randomly rotated copies of it; the result locals are reset.
Converge ==
    /\ run' = run
    /\ last_write' = last_write
    /\ recorded_trusts' = recorded_trusts
    /\ pc = "init"
    /\ guess = "valid" \/ (guess = "broadcast" /\ threads = 1)
    /\ \E scatter \in [Slots \ {0} -> Coef] :
          mo_coeffs' = [mo_coeffs EXCEPT ![0] =
              [s \in Slots |-> IF s = 0 THEN mo_basis_coeff ELSE scatter[s]]]
    /\ sc_mo_coeffs' = mo_coeffs'[0]
    /\ scf_conv' = FALSE
    /\ disregarded' = FALSE
    /\ winner_energy' = NaN
    /\ final_mo_coeffs' = NoneC
    /\ final_mo_energy' = NoneC
    /\ final_energy' = 0
    /\ cycle' = 0
    /\ pc' = IF max_cycle > 0 THEN "reassign" ELSE "dump"
    /\ UNCHANGED <<cfgvars, current_trusts, current_energies, subconverger_indices,
                   mo_cursor, mf, j, purge_indices, newMoCoeffs, sorted_trusts, error>>

\* Lines 268-275: the assignment of the initial guess to slot 0 raises
\* ValueError when numpy cannot broadcast it; the agents hold it already.
ConvergeRejectsGuess ==
    /\ run' = run
    /\ last_write' = last_write
    /\ recorded_trusts' = recorded_trusts
    /\ pc = "init"
    /\ guess = "mismatch"
    /\ sc_mo_coeffs' = [a \in Slots |->
          IF a = 0 \/ (\A r \in Ring : \A s \in Slots : mo_coeffs[r][s] = ZeroC)
          THEN mo_basis_coeff ELSE sc_mo_coeffs[a]]
    /\ pc' = "raised"
    /\ error' = "ValueError"
    /\ UNCHANGED <<cfgvars, mo_coeffs, current_trusts, current_energies,
                   subconverger_indices, mo_cursor, localvars, resultvars>>

\* Lines 268-296: a broadcast guess is written to slot 0; with more than one
\* agent the product of the guess with the rotation of the first scattered
\* slot then raises ValueError.
ConvergeScatterFails ==
    /\ run' = run
    /\ last_write' = last_write
    /\ recorded_trusts' = recorded_trusts
    /\ pc = "init"
    /\ guess = "broadcast" /\ threads > 1
    /\ mo_coeffs' = [mo_coeffs EXCEPT ![0][0] = mo_basis_coeff]
    /\ sc_mo_coeffs' = [a \in Slots |->
          IF a = 0 \/ (\A r \in Ring : \A s \in Slots : mo_coeffs[r][s] = ZeroC)
          THEN mo_basis_coeff ELSE sc_mo_coeffs[a]]
    /\ pc' = "raised"
    /\ error' = "ValueError"
    /\ UNCHANGED <<cfgvars, current_trusts, current_energies,
                   subconverger_indices, mo_cursor, localvars, resultvars>>

\* A purge-set candidate computation that purges at least one slot whatever
\* the purge fraction.
PurgeCandidatesAtLeastOne(row) ==
    LET sorted_indices == ArgSort(row, Slots)
        n == SetMax({1, SetMin({(threads * purge_subconvergers) \div PurgeDen, threads})})
        bottom == {sorted_indices[i] : i \in 1 .. n}
        nonunique == {i \in Slots : \E k \in Slots :
                         k < i /\ ~IsNaN(row[i]) /\ row[k] = row[i]}
        zero_indices == {i \in Slots : Le(row[i], convergence_thresh)}
    IN  bottom \cup nonunique \cup zero_indices

\* ------------------------------------------------------------ purge set
\* Lines 334-346: the purge set before slot 0 is considered, from the trust
\* row at the read position.
PurgeCandidates(row) ==
    LET sorted_indices == ArgSort(row, Slots)
        n == SetMin({(threads * purge_subconvergers) \div PurgeDen, threads})
        bottom == {sorted_indices[i] : i \in 1 .. n}
        nonunique == {i \in Slots : \E k \in Slots :
                         k < i /\ ~IsNaN(row[i]) /\ row[k] = row[i]}
        zero_indices == {i \in Slots : Le(row[i], convergence_thresh)}
    IN  bottom \cup nonunique \cup zero_indices

\* A purge set that does not spare slot 0.
PurgeSetNoPrivilege(row) == PurgeCandidates(row)

\* Lines 349-350: slot 0 leaves the purge set while its trust is positive.
PurgeSet(row) ==
    LET cand == PurgeCandidates(row)
    IN  IF 0 \in cand /\ Gt(row[0], 0) THEN cand \ {0} ELSE cand

\* ------------------------------------------- SubconvergerReassigmentManager
\* max_written of line 352 and the ring positions handed to the policy.
max_written == SetMin({cycle, memSize})
Written == 0 .. (max_written - 1)

\* trusts[i] *= mem_scale ** p of lines 858-863, for one value.
ScaleTrust(t, p) ==
    IF IsNaN(t) THEN NaN
    ELSE RoundPos(t * Pow(mem_scale[1], p), Pow(mem_scale[2], p))

\* Lines 858-863: the trust rows after the in-place decay; cursor is the read
\* position.  The rows are a view of self.current_trusts.
DecayedTrusts(cursor) ==
    [r \in Ring |->
        IF r \in Written
        THEN [s \in Slots |->
                ScaleTrust(current_trusts[r][s], (cursor - r) % max_written)]
        ELSE current_trusts[r]]

\* Position of <<ring position, slot>> in the flattened arrays (lines 865-866).
FlatIndex(r, s) == r * threads + s

\* flattenTrustMOArray of the trust rows handed to the policy (lines 865,
\* 905-909): the retained trusts, indexed by flat position.
FlatTrusts(w) ==
    [i \in 0 .. (max_written * threads - 1) |-> w[i \div threads][i % threads]]

\* numpy.einsum('i->', trusts) of line 870: NaN as soon as one trust is NaN.
RECURSIVE SumOver(_, _)
SumOver(ft, S) ==
    IF S = {} THEN 0
    ELSE LET i == CHOOSE e \in S : TRUE IN ft[i] + SumOver(ft, S \ {i})
FlatSum(ft) ==
    IF \E i \in DOMAIN ft : IsNaN(ft[i]) THEN NaN ELSE SumOver(ft, DOMAIN ft)

\* trustmap of line 869, as a sequence of flat positions.
trustmap(ft) == ArgSort(ft, DOMAIN ft)

\* normed_trusts of line 870 is NaN throughout when the sum is NaN or 0 (0/0).
NormedIsNaN(ft) == IsNaN(FlatSum(ft)) \/ FlatSum(ft) = 0

\* The loop of inverseCDF (lines 873-877) from position i of the argsort, for
\* the variate x / (xd * sum): normed_trusts[i] is ft[trustmap[i]] * xd over
\* the same denominator.
RECURSIVE inverseCDFFrom(_, _, _, _)
inverseCDFFrom(ft, x, xd, i) ==
    LET tm == trustmap(ft)
    IN  IF i > Len(tm) THEN Len(tm)
        ELSE IF x < ft[tm[i]] * xd THEN i
        ELSE inverseCDFFrom(ft, x - ft[tm[i]] * xd, xd, i + 1)

\* inverseCDF(xn / xd) of lines 872-877, as a position of the argsort: no
\* comparison with a NaN normed trust succeeds, so the loop falls through.
inverseCDF(ft, xn, xd) ==
    IF NormedIsNaN(ft) THEN Len(trustmap(ft))
    ELSE inverseCDFFrom(ft, xn * FlatSum(ft), xd, 1)

\* trustmap[inverseCDF(rand)] of line 884 for rand = xn / xd.
selectedIndex(ft, xn, xd) == trustmap(ft)[inverseCDF(ft, xn, xd)]

\* The uniform variates of line 883, one at the middle of each of n equal
\* parts of [0, 1): part k stands for rand = (2k + 1) / (2n).
Variates(n) == 0 .. (n - 1)

\* The number of parts that suffices to tell the draws apart: one per unit of
\* summed trust, or a single part when the normed trusts are NaN.
Parts(ft) == IF NormedIsNaN(ft) THEN 1 ELSE FlatSum(ft)

\* Lines 869-884: the flattened entries one inverse-CDF draw can select.  With
\* a NaN among the weights, or with all weights zero, the normed weights are
\* all NaN and every draw falls through to the last entry of the argsort.
Selectable(w) ==
    LET ft == FlatTrusts(w)
        n  == Parts(ft)
    IN  {<<i \div threads, i % threads>> :
            i \in {selectedIndex(ft, 2 * k + 1, 2 * n) : k \in Variates(n)}}

\* Lines 893-901 with genTrustRegionPoints: the new starting points one
\* selected entry can produce.  The radius log(1-x) / (-alpha * trust) is not
\* finite when the entry's weight is 0 or NaN or when alpha is NaN (a NaN
\* among the trusts); a finite rotation of a finite source reaches any point.
ShiftsFrom(w, e) ==
    IF (\E o \in Written \X Slots : IsNaN(w[o[1]][o[2]])) \/ w[e[1]][e[2]] = 0
    THEN {NaNC}
    ELSE IF mo_coeffs[e[1]][e[2]] \in Coef THEN Coef
    ELSE {mo_coeffs[e[1]][e[2]]}

\* generateNewShifts: the possible results, one new starting point per purged
\* slot.
generateNewShifts(w, purge) ==
    LET points == UNION {ShiftsFrom(w, e) : e \in Selectable(w)}
    IN  [purge -> points]

\* --------------------------------------------------- converge(): one cycle
\* Bases and buffer as in the code, with a target order taken over all slots.
SetBasesSortAll(coeffs, trusts, purge) ==
    /\ sc_mo_coeffs' = [a \in Slots |->
          coeffs[IF subconverger_indices[a] \in purge
                 THEN writeCursor ELSE readCursor][subconverger_indices[a]]]
    /\ newMoCoeffs' = coeffs[readCursor]
    /\ sorted_trusts' = IF threads > 1
                        THEN ArgSort(trusts[readCursor], Slots)
                        ELSE <<0>>
    /\ j' = 0
    /\ pc' = "step"

\* Lines 363-378: every agent's base, the buffer and the target order.
SetBases(coeffs, trusts, purge) ==
    /\ sc_mo_coeffs' = [a \in Slots |->
          coeffs[IF subconverger_indices[a] \in purge
                 THEN writeCursor ELSE readCursor][subconverger_indices[a]]]
    /\ newMoCoeffs' = coeffs[readCursor]
    /\ sorted_trusts' = IF threads > 1
                        THEN ArgSort(trusts[readCursor], Slots \ {0})
                        ELSE <<0>>
    /\ j' = 0
    /\ pc' = "step"

\* Lines 316-378 when the purge block is skipped (first cycle, or one agent).
BeginCycle ==
    /\ run' = run
    /\ last_write' = last_write
    /\ recorded_trusts' = recorded_trusts
    /\ pc = "reassign"
    /\ ~(cycle > 0 /\ threads > 1)
    /\ purge_indices' = {}
    /\ SetBases(mo_coeffs, current_trusts, {})
    /\ UNCHANGED <<cfgvars, mo_coeffs, current_trusts, current_energies,
                   subconverger_indices, mo_cursor, cycle, resultvars, error>>

\* Line 349 on an empty purge set: purge_indices[0] raises IndexError.
ReassignIndexError ==
    /\ run' = run
    /\ last_write' = last_write
    /\ recorded_trusts' = recorded_trusts
    /\ pc = "reassign"
    /\ cycle > 0 /\ threads > 1
    /\ PurgeCandidates(current_trusts[readCursor]) = {}
    /\ pc' = "raised"
    /\ error' = "IndexError"
    /\ UNCHANGED <<cfgvars, poolvars, localvars, resultvars>>

\* Lines 333-378: purge set, policy, write-back, bases.
Reassign ==
    /\ run' = run
    /\ last_write' = last_write
    /\ recorded_trusts' = recorded_trusts
    /\ pc = "reassign"
    /\ cycle > 0 /\ threads > 1
    /\ PurgeCandidates(current_trusts[readCursor]) # {}
    /\ LET purge == PurgeSet(current_trusts[readCursor])
           w == DecayedTrusts(readCursor)
       IN  /\ purge_indices' = purge
           /\ current_trusts' = w
           /\ \E shifts \in generateNewShifts(w, purge) :
                 mo_coeffs' = [mo_coeffs EXCEPT ![writeCursor] =
                     [s \in Slots |-> IF s \in purge THEN shifts[s] ELSE @[s]]]
           /\ current_energies' = [s \in Slots |->
                 IF s \in purge THEN FltMax ELSE current_energies[s]]
           /\ SetBases(mo_coeffs', w, purge)
    /\ UNCHANGED <<cfgvars, subconverger_indices, mo_cursor, cycle, resultvars, error>>

\* An acceptance threshold with the two trusts exchanged.
McThresholdSwapped(s, t) == IF IsNaN(s) \/ IsNaN(t) THEN NaN ELSE TOne - t + s

\* 1 - current_trusts[readCursor, writeTrustIndex] + trust of line 396.
McThreshold(s, t) == IF IsNaN(s) \/ IsNaN(t) THEN NaN ELSE TOne - s + t

\* Lines 380-407 for agent j: the local step and the acceptance of its result.
LocalStep ==
    /\ run' = run
    /\ last_write' = last_write
    /\ recorded_trusts' = recorded_trusts
    /\ pc = "step"
    /\ j < threads
    /\ LET res == getLocalSolAndTrust(sc_mo_coeffs[j])
           sol == res[1]
           trust == res[2]
           writeTrustIndex == IF j = 0 THEN 0 ELSE sorted_trusts[j]
           mc_threshold == McThreshold(current_trusts[readCursor][writeTrustIndex], trust)
           write(target) ==
               /\ current_trusts' = [current_trusts EXCEPT ![writeCursor][target] = trust]
               /\ newMoCoeffs' = [newMoCoeffs EXCEPT ![target] = sol]
               /\ subconverger_indices' = [subconverger_indices EXCEPT ![j] = target]
           skip == UNCHANGED <<current_trusts, newMoCoeffs, subconverger_indices>>
       IN  IF trust = 0 THEN skip
           ELSE IF (j = 0 /\ Gt(current_trusts[readCursor][j], 0)) \/ threads = 1
           THEN write(j)
           ELSE \/ Gt(mc_threshold, 0) /\ write(writeTrustIndex)
                \/ ~Ge(mc_threshold, TOne) /\ skip
    /\ j' = j + 1
    /\ pc' = IF j + 1 = threads THEN "check" ELSE "step"
    /\ UNCHANGED <<cfgvars, mo_coeffs, current_energies, mo_cursor, sc_mo_coeffs,
                   cycle, purge_indices, sorted_trusts, resultvars, error>>

\* Lines 416-432 as seen from the state before line 410.
highestTrustIndexLast ==
    LET row == current_trusts[writeCursor]
    IN  CHOOSE i \in Slots : \A k \in Slots :
            \/ SortKey(row[i]) > SortKey(row[k])
            \/ (SortKey(row[i]) = SortKey(row[k]) /\ i >= k)
highestTrustIndex == ArgMax(current_trusts[writeCursor], Slots)

\* The energies of the buffer and the test of lines 429-432.
NewEnergies == [s \in Slots |-> energy_elec(newMoCoeffs[s])]
FloatSub(a, b) == IF IsNaN(a) \/ IsNaN(b) THEN NaN ELSE a - b
TrustLooksConverged == TrustConverged(current_trusts[writeCursor][highestTrustIndex])
NonVariationalAbove ==
    /\ TrustLooksConverged
    /\ Gt(FloatSub(NpMin(NewEnergies, Slots), NewEnergies[highestTrustIndex]),
          convergence_thresh)
NonVariational ==
    /\ TrustLooksConverged
    /\ Lt(FloatSub(NpMin(NewEnergies, Slots), NewEnergies[highestTrustIndex]),
          -convergence_thresh)

\* A commit that overwrites the snapshot the cycle read.
CommitAtReadPosition ==
    /\ mo_coeffs' = [mo_coeffs EXCEPT ![readCursor] = newMoCoeffs]
    /\ current_energies' = NewEnergies
    /\ last_write' = writeCursor

\* Lines 410-424: commit of the buffer and the energies of the committed pool.
Commit ==
    /\ mo_coeffs' = [mo_coeffs EXCEPT ![writeCursor] = newMoCoeffs]
    /\ current_energies' = NewEnergies
    /\ last_write' = writeCursor

\* Lines 462-464 and the loop header: next cycle, or the end of the loop.
Advance ==
    /\ mo_cursor' = IF mo_cursor + 1 >= memSize THEN 0 ELSE mo_cursor + 1
    /\ cycle' = cycle + 1
    /\ pc' = IF cycle + 1 < max_cycle THEN "reassign" ELSE "dump"

\* The trusts of the write position as the cycle leaves them.
Record ==
    recorded_trusts' = [recorded_trusts EXCEPT ![writeCursor] = current_trusts'[writeCursor]]

\* Lines 410-460: the cycle ends converged.
CycleConverged ==
    /\ run' = run
    /\ pc = "check"
    /\ TrustLooksConverged /\ ~NonVariational
    /\ Commit
    /\ LET c == newMoCoeffs[highestTrustIndex]
       IN  /\ final_mo_coeffs' = c
           /\ final_mo_energy' = calculateOrbitalEnergies(c)
           /\ final_energy' = energy_tot(c)
           /\ mf' = [converged |-> TRUE, mo_energy |-> calculateOrbitalEnergies(c),
                     mo_coeff |-> c, e_tot |-> energy_tot(c)]
    /\ scf_conv' = TRUE
    /\ disregarded' = FALSE
    /\ winner_energy' = NewEnergies[highestTrustIndex]
    /\ pc' = "dump"
    /\ UNCHANGED <<cfgvars, current_trusts, subconverger_indices, mo_cursor,
                   sc_mo_coeffs, localvars, error>>
    /\ Record

\* Lines 432-440, 462-464: the safety check rejects the converged-looking
\* slots whose energy is not below the highest-trust slot's.
CycleNonVariational ==
    /\ run' = run
    /\ pc = "check"
    /\ NonVariational
    /\ Commit
    /\ current_trusts' = [current_trusts EXCEPT ![writeCursor] =
          [s \in Slots |->
              IF /\ Ge(NewEnergies[s], NewEnergies[highestTrustIndex])
                 /\ TrustConverged(current_trusts[writeCursor][s])
              THEN 0 ELSE @[s]]]
    /\ Advance
    /\ disregarded' = TRUE
    /\ winner_energy' = NewEnergies[highestTrustIndex]
    /\ UNCHANGED <<cfgvars, subconverger_indices, sc_mo_coeffs, j, purge_indices,
                   newMoCoeffs, sorted_trusts, scf_conv, final_mo_coeffs,
                   final_mo_energy, final_energy, mf, error>>
    /\ Record

\* Lines 410-464: the cycle ends without a converged-looking slot.
CycleNotConverged ==
    /\ run' = run
    /\ pc = "check"
    /\ ~TrustLooksConverged
    /\ Commit
    /\ Advance
    /\ disregarded' = FALSE
    /\ winner_energy' = NewEnergies[highestTrustIndex]
    /\ UNCHANGED <<cfgvars, current_trusts, subconverger_indices, sc_mo_coeffs, j,
                   purge_indices, newMoCoeffs, sorted_trusts, scf_conv,
                   final_mo_coeffs, final_mo_energy, final_energy, mf, error>>
    /\ Record

\* ------------------------------------------------------------- dumpInfo
\* Lines 511/516 subscript mf.mo_energy, which is None until a run converged;
\* line 533 takes len(mf.mo_energy[0]), a scalar for the restricted methods.
DumpInfoFails == mf.mo_energy = NoneC \/ method \notin {"uhf", "uks"}

\* Lines 466-469: dumpInfo raises TypeError, which leaves converge().
DumpInfoRaises ==
    /\ run' = run
    /\ last_write' = last_write
    /\ recorded_trusts' = recorded_trusts
    /\ pc = "dump"
    /\ DumpInfoFails
    /\ pc' = "raised"
    /\ error' = "TypeError"
    /\ UNCHANGED <<cfgvars, poolvars, localvars, resultvars>>

\* Lines 466-472: converge() returns
\* (scf_conv, final_energy, final_mo_energy, final_mo_coeffs, mo_occs).
Return ==
    /\ run' = run
    /\ last_write' = last_write
    /\ recorded_trusts' = recorded_trusts
    /\ pc = "dump"
    /\ ~DumpInfoFails
    /\ pc' = "done"
    /\ UNCHANGED <<cfgvars, poolvars, localvars, resultvars, error>>

\* converge() is called again on the object after it returned: the pool,
\* the cursor, the agents' slots and the mean-field object are as the
\* earlier run left them.
Restart ==
    /\ pc = "done"
    /\ run < MaxRuns
    /\ run' = run + 1
    /\ last_write' = last_write
    /\ recorded_trusts' = recorded_trusts
    /\ pc' = "init"
    /\ UNCHANGED <<cfgvars, poolvars, localvars, resultvars, error>>

\* Lines 213-221: set(purgeSolvers = p) between two calls; the other
\* assignments of set() create attributes nothing reads (convergene_thresh,
\* subconverger_rm.trustScaleRange) or replace the scattering radius.
Set ==
    /\ pc \in {"init", "done"}
    /\ \E p \in PurgeFractions :
          /\ purgeSolvers # p
          /\ purgeSolvers' = p
    /\ run' = run
    /\ last_write' = last_write
    /\ recorded_trusts' = recorded_trusts
    /\ UNCHANGED <<threads, memSize, purge_subconvergers, convergence_thresh, mem_scale,
                   max_cycle, method, nr, mo_basis_coeff, guess, _purgeSolvers,
                   poolvars, localvars, resultvars, pc, error>>

\* Lines 225-238: kernel(purgeSolvers = p, convergence, dm0) with the digits
\* and the density matrix the object was built from, as the first call or
\* after an earlier run returned; memScale goes to self.mem_scale, which
\* nothing reads.  A dm0 that is no array raises; otherwise converge()
\* follows (line 238).
Kernel ==
    /\ \/ pc = "init" /\ run = 1 /\ _purgeSolvers = NoneC /\ run' = run
       \/ pc = "done" /\ run < MaxRuns /\ run' = run + 1
    /\ \E p \in PurgeFractions : _purgeSolvers' = p
    /\ \E dm0 \in {"ndarray", "None"} :
          IF dm0 = "ndarray"
          THEN pc' = "init" /\ error' = error
          ELSE pc' = "raised" /\ error' = "Exception"
    /\ last_write' = last_write
    /\ recorded_trusts' = recorded_trusts
    /\ UNCHANGED <<threads, memSize, purge_subconvergers, convergence_thresh, mem_scale,
                   max_cycle, method, nr, mo_basis_coeff, guess, purgeSolvers,
                   poolvars, localvars, resultvars>>

Next ==
    \/ Restart
    \/ Converge
    \/ ConvergeRejectsGuess
    \/ ConvergeScatterFails
    \/ BeginCycle
    \/ Reassign
    \/ ReassignIndexError
    \/ LocalStep
    \/ CycleConverged
    \/ CycleNonVariational
    \/ CycleNotConverged
    \/ DumpInfoRaises
    \/ Return

Spec == Init /\ [][Next]_vars

SpecStationary == InitStationary /\ [][Next]_vars

SpecDeepRing == InitDeepRing /\ [][Next]_vars

\* The runs that are entered through kernel() and prepared with set() as
\* well: two agents, ring depth 1, the unrestricted method.
NextKernel ==
    \/ Next
    \/ Set
    \/ Kernel

SpecKernel == InitKernel /\ [][NextKernel]_vars


\* =========================================================== properties
\* The position of the snapshot the last finished cycle committed, and the
\* number of finished cycles of the run: a converged cycle leaves the loop
\* before the cursor and the cycle counter advance.
BetweenCycles == pc \in {"reassign", "dump", "done"} \/ (pc = "raised" /\ error = "TypeError")
CommittedPos == last_write
Completed == IF scf_conv THEN cycle + 1 ELSE cycle

\* C1: in every reachable state, every stored trust value (every ring
\* position, every slot) lies in the closed interval [0, 1].
C1_TrustInUnitInterval ==
    \A r \in Ring : \A s \in Slots :
        /\ ~IsNaN(current_trusts[r][s])
        /\ current_trusts[r][s] >= 0
        /\ current_trusts[r][s] <= TOne

C4_ExhaustedRaisesNothing ==
    (~scf_conv /\ cycle = max_cycle) => error = ""

\* C5: a run that returns without convergence returns the coefficients and
\* the energy of a slot of the final pool.
C5_ExhaustedReturnsCandidate ==
    (pc = "done" /\ ~scf_conv) =>
        \E s \in Slots :
            /\ final_mo_coeffs = mo_coeffs[CommittedPos][s]
            /\ final_energy = current_energies[s]

\* C6: converge() leaves the cycle loop only converged or after max_cycle
\* cycles, executes at most max_cycle cycles, and executes no cycle after
\* one that declared convergence.
C6_LoopEndsConvergedOrExhausted ==
    /\ cycle <= max_cycle
    /\ pc \in {"dump", "done", "raised"} => (scf_conv \/ cycle = max_cycle)
    /\ scf_conv => pc \in {"dump", "done", "raised"}

\* C7: in every cycle after the first, slot 0 is not in the purge set while
\* its trust at the read position is positive, and the reassignment leaves
\* its coefficients at the write position alone.
C7_SlotZeroPrivileged ==
    [][(/\ pc = "reassign" /\ pc' = "step"
        /\ cycle > 0
        /\ Gt(current_trusts[readCursor][0], 0))
       => /\ 0 \notin purge_indices'
          /\ mo_coeffs'[writeCursor][0] = mo_coeffs[writeCursor][0]]_vars

\* C7 happens: slot 0 was a purge candidate with positive trust and was
\* spared.
C7_Witness ==
    /\ pc = "step" /\ j = 0 /\ cycle > 0 /\ threads > 1
    /\ Gt(current_trusts[readCursor][0], 0)
    /\ 0 \in PurgeCandidates(current_trusts[readCursor])
    /\ 0 \notin purge_indices

\* k successive Newton steps from c.
RECURSIVE NRIter(_, _)
NRIter(c, k) == IF k = 0 THEN c ELSE oneNewtonStep(NRIter(c, k - 1))

\* k successive Newton steps from c, a step of trust 0 being dropped.
RECURSIVE NRKeep(_, _)
NRKeep(c, k) ==
    IF k = 0 THEN c
    ELSE LET base == NRKeep(c, k - 1)
             res == getLocalSolAndTrust(base)
         IN  IF res[2] = 0 THEN base ELSE res[1]

\* C8 as stated: with one agent, for every ring depth, the coefficients slot
\* 0 holds after cycle k are k Newton steps applied to the initial guess.
C8_PlainNewtonTrajectory ==
    (threads = 1 /\ BetweenCycles /\ Completed >= 1) =>
        mo_coeffs[CommittedPos][0] = NRIter(mo_basis_coeff, Completed)

\* C8: with one agent, for every ring depth, the coefficients slot 0 holds
\* after cycle k are k Newton steps applied to the initial guess, where a
\* step whose trust is exactly 0 is dropped and slot 0 keeps its coefficients.
C8_NewtonTrajectoryDroppingZeroTrust ==
    (threads = 1 /\ BetweenCycles /\ Completed >= 1) =>
        mo_coeffs[CommittedPos][0] = NRKeep(mo_basis_coeff, Completed)

\* C8 happens: after a step that moved slot 0, a step of trust 0 was dropped.
C8_Witness ==
    /\ threads = 1 /\ memSize > 1 /\ BetweenCycles /\ Completed >= 2
    /\ mo_coeffs[CommittedPos][0] # mo_basis_coeff
    /\ oneNewtonStep(mo_coeffs[CommittedPos][0]) = FarC

\* C10 as stated: with purge fraction 0 every slot of the purge set has
\* trust 0 at the read position.
C10_PurgesOnlyZeroTrust ==
    [][(/\ pc = "reassign" /\ pc' = "step"
        /\ purge_subconvergers = 0)
       => \A s \in purge_indices' : current_trusts[readCursor][s] = 0]_vars

\* C10: with purge fraction 0 every slot of the purge set has, at the read
\* position, a trust at or below the convergence threshold or the trust of a
\* lower-indexed slot.
C10_PurgesOnlyLowOrDuplicateTrust ==
    [][(/\ pc = "reassign" /\ pc' = "step"
        /\ purge_subconvergers = 0)
       => \A s \in purge_indices' :
             LET row == current_trusts[readCursor]
             IN  \/ Le(row[s], convergence_thresh)
                 \/ \E k \in Slots : k < s /\ row[k] = row[s]]_vars

\* C10 happens: with purge fraction 0 a slot of positive trust was purged.
C10_Witness ==
    /\ pc = "step" /\ j = 0 /\ cycle > 0
    /\ purge_subconvergers = 0
    /\ \E s \in purge_indices : Gt(current_trusts[readCursor][s], 0)


\* ---------------------------------------------------------------------- C11
\* The agent whose turn it is, stepping from a finite base to a non-finite
\* oracle result.
NonFiniteStep ==
    /\ pc = "step" /\ j < threads
    /\ sc_mo_coeffs[j] \in Coef
    /\ oneNewtonStep(sc_mo_coeffs[j]) = NaNC

\* C11: when the oracle step of an agent yields a non-finite result, some slot
\* (the agent's own) ends the step with trust 0 and with the agent's base
\* coefficients in the buffer, no exception is raised, and the trust and the
\* buffer entry of every other slot are as they were before the step.
C11_NonFiniteStepAbsorbed ==
    [][NonFiniteStep =>
         /\ pc' # "raised"
         /\ \E slot \in Slots :
               /\ current_trusts'[writeCursor][slot] = 0
               /\ newMoCoeffs'[slot] = sc_mo_coeffs[j]
               /\ \A s \in Slots \ {slot} :
                     /\ current_trusts'[writeCursor][s] = current_trusts[writeCursor][s]
                     /\ newMoCoeffs'[s] = newMoCoeffs[s]]_vars

\* ---------------------------------------------------------------------- C12
\* No cycle has run and no slot of the history ring was written.
PoolUntouched ==
    /\ cycle = 0
    /\ \A r \in Ring : \A s \in Slots :
          mo_coeffs[r][s] = ZeroC /\ current_trusts[r][s] = 0

\* C12: an initial guess whose dimensions do not match the overlap matrix is
\* rejected before any cycle runs and before any slot's trust or coefficients
\* are written: with such a guess the object is either not started yet or has
\* raised, and the ring is as the constructor left it.
C12_InvalidGuessRejectedAtInit ==
    guess # "valid" => (pc \in {"init", "raised"} /\ PoolUntouched)

\* ---------------------------------------------------------------------- C13
\* The highest-trust slot of the committed snapshot.
Winner == ArgMax(current_trusts[last_write], Slots)

C14_CursorReadsLastCommitted ==
    [][/\ mo_cursor' \in Ring
       /\ (cycle' = cycle + 1) => (mo_cursor' = (mo_cursor + 1) % memSize)
       /\ (pc' = "reassign" /\ cycle' > 0)
             => /\ readCursor' = (writeCursor' - 1) % memSize
                /\ readCursor' = last_write']_vars

\* ------------------------------------------------------------------ C15/C16
\* The policy is about to run: a cycle after the first with several agents.
\* RetainedTrusts are the trusts it flattens, after the decay of lines 858-863.
AtReassign == pc = "reassign" /\ cycle > 0 /\ threads > 1
RetainedTrusts == FlatTrusts(DecayedTrusts(readCursor))

\* The parts of [0, 1), out of n equal ones, in which a draw selects entry i.
SelectedParts(ft, n, i) ==
    {k \in Variates(n) : selectedIndex(ft, 2 * k + 1, 2 * n) = i}

\* C15: when every retained trust is zero, the source selection is a uniform
\* slot choice: dividing the range of the uniform variate into as many equal
\* parts as there are retained entries, every entry is selected in exactly one
\* part.
C15_ColdStartUniform ==
    (AtReassign /\ \A i \in DOMAIN RetainedTrusts : RetainedTrusts[i] = 0)
    => \A i \in DOMAIN RetainedTrusts :
          Cardinality(SelectedParts(RetainedTrusts, Cardinality(DOMAIN RetainedTrusts), i)) = 1

QualifiesConverged(s) ==
    /\ TrustConverged(current_trusts[writeCursor][s])
    /\ \A o \in Slots :
          ~Gt(FloatSub(NewEnergies[s], NewEnergies[o]), convergence_thresh)

\* C17 as stated: a cycle in whose snapshot some slot, of whatever rank of
\* trust, looks converged and passes the energy comparison ends converged.
C17_AnyQualifyingSlotConverges ==
    [][(pc = "check" /\ \E s \in Slots : QualifiesConverged(s)) => scf_conv']_vars

\* C17, amended: only the slot numpy.argmax finds (the first slot of highest
\* trust, a NaN trust counting as highest) is examined: a cycle ends converged
\* when that slot looks converged and passes the energy comparison.
C17_HighestTrustSlotConverges ==
    [][(pc = "check"
        /\ QualifiesConverged(ArgMax(current_trusts[writeCursor], Slots)))
       => (scf_conv' /\ pc' = "dump")]_vars

\* A converged run in whose last snapshot a second slot looks converged too.
C17_Witness ==
    /\ pc = "dump" /\ scf_conv
    /\ \E s \in Slots \ {Winner} : TrustConverged(current_trusts[last_write][s])

\* ---------------------------------------------------------------------- C18
\* The number of slots that precede s in ascending order of read-position
\* trust (ties in slot order, NaN last).
LowerRanked(s) ==
    LET row == current_trusts[readCursor]
    IN  Cardinality({o \in Slots :
            \/ SortKey(row[o]) < SortKey(row[s])
            \/ (SortKey(row[o]) = SortKey(row[s]) /\ o < s)})

\* The purge set as described: the floor(N * purgeFraction) slots of lowest
\* trust, the slots of trust at or below the convergence threshold and the
\* slots whose trust repeats that of an earlier slot, without slot 0 when its
\* trust is positive.
DescribedPurgeSet ==
    LET row == current_trusts[readCursor]
        lowest == {s \in Slots :
                     LowerRanked(s) < (threads * purge_subconvergers) \div PurgeDen}
        low == {s \in Slots : Le(row[s], convergence_thresh)}
        dup == {s \in Slots : \E o \in Slots :
                  o < s /\ ~IsNaN(row[s]) /\ row[o] = row[s]}
        all == lowest \cup low \cup dup
    IN  IF Gt(row[0], 0) THEN all \ {0} ELSE all

\* C18: in every cycle after the first with more than one agent, the cycle
\* computes its purge set, and it is exactly the described one.
C18_PurgeSetExact ==
    [][AtReassign => (pc' = "step" /\ purge_indices' = DescribedPurgeSet)]_vars

\* ---------------------------------------------------------------------- C19
\* A cycle is in progress: from its purge block to its convergence check.
InCycle == pc \in {"reassign", "step", "check"}

\* No step of the cycle changes what is stored at the read position.
ReadPositionKept ==
    /\ current_trusts'[readCursor] = current_trusts[readCursor]
    /\ mo_coeffs'[readCursor] = mo_coeffs[readCursor]

\* C19 as stated: for every ring depth, depth 1 included, and in every cycle,
\* no step of a cycle modifies the trusts or the coefficients stored at the
\* read position.
C19_ReadPositionNeverWritten ==
    [][InCycle => ReadPositionKept]_vars

\* C19, amended: with a ring of depth 2 or more, no step of a cycle after the
\* first modifies the trusts or the coefficients stored at the read position.
\* (With depth 1, and in the first cycle of a run, the read position is the
\* write position.)
C19_ReadPositionKeptInDeepRing ==
    [][(InCycle /\ memSize >= 2 /\ cycle > 0) => ReadPositionKept]_vars

\* A later cycle of a deep ring after its reassignment and its steps: the
\* write position holds trusts other than those that were read.
C19_Witness ==
    /\ pc = "check" /\ memSize >= 2 /\ cycle > 0
    /\ purge_indices # {}
    /\ current_trusts[writeCursor] # current_trusts[readCursor]

\* ---------------------------------------------------------------------- C20
\* C20: the reassignment step of a cycle leaves every trust of the history
\* ring unchanged, changes no coefficients other than those of the purge-set
\* slots at the write position, and no energy entry other than those of the
\* purge-set slots.
C20_ReassignmentFrame ==
    [][(AtReassign /\ pc' = "step")
       => /\ current_trusts' = current_trusts
          /\ \A r \in Ring : \A s \in Slots :
                (r # writeCursor \/ s \notin purge_indices')
                   => mo_coeffs'[r][s] = mo_coeffs[r][s]
          /\ \A s \in Slots \ purge_indices' :
                current_energies'[s] = current_energies[s]]_vars

\* ---------------------------------------------------------------------- C21
\* The slot agent a writes when its result is accepted (lines 390-407).
TargetSlot(a) == IF a = 0 THEN 0 ELSE sorted_trusts[a]

\* C21: within one cycle the slots the agents' results are written to are
\* pairwise distinct: agent 0 has slot 0, agents 1..N-1 have pairwise
\* different slots among 1..N-1, and the step of an agent changes the trust
\* and the buffer entry of no slot but its own.
C21_AgentsWriteDistinctSlots ==
    [][(pc = "step" /\ j < threads)
       => /\ \A a \in Slots \ {0} : TargetSlot(a) \in Slots \ {0}
          /\ \A a, b \in Slots : a # b => TargetSlot(a) # TargetSlot(b)
          /\ \A s \in Slots \ {TargetSlot(j)} :
                /\ current_trusts'[writeCursor][s] = current_trusts[writeCursor][s]
                /\ newMoCoeffs'[s] = newMoCoeffs[s]]_vars

\* All agents of a full pool stepped and agents 1 and 2 wrote each other's
\* slot.
C21_Witness ==
    /\ pc = "check" /\ threads = MaxThreads
    /\ subconverger_indices[1] = 2 /\ subconverger_indices[2] = 1
    /\ TargetSlot(1) = 2 /\ TargetSlot(2) = 1

\* ---------------------------------------------------------------------- C22
\* C22: whenever the agents are not in the middle of their steps, the
\* agent-to-slot assignment is a permutation of the slots, so that every slot
\* is the base of exactly one agent's step in every cycle.
C22_AssignmentIsPermutation ==
    pc # "step" =>
        \A s \in Slots : Cardinality({a \in Slots : subconverger_indices[a] = s}) = 1

\* ---------------------------------------------------------------------- C23
\* The result of the agent whose turn it is: its trust t, its solution, the
\* committed trust s of its target slot, and 1 - s + t.
StepTrust == getLocalSolAndTrust(sc_mo_coeffs[j])[2]
StepSol == getLocalSolAndTrust(sc_mo_coeffs[j])[1]
TargetTrust == current_trusts[readCursor][TargetSlot(j)]
AcceptanceLevel == FloatSub(TOne + StepTrust, TargetTrust)

\* The step of the agent with its result written to the target slot, and with
\* its result discarded.
StepAccepted ==
    /\ LocalStep
    /\ current_trusts'[writeCursor][TargetSlot(j)] = StepTrust
    /\ newMoCoeffs'[TargetSlot(j)] = StepSol
    /\ subconverger_indices'[j] = TargetSlot(j)
StepRejected ==
    /\ LocalStep
    /\ UNCHANGED <<current_trusts, newMoCoeffs, subconverger_indices>>

\* An agent is about to step with a result of non-zero trust whose acceptance
\* would change the pool.
ResultPending ==
    /\ pc = "step" /\ j < threads
    /\ StepTrust # 0
    /\ \/ current_trusts[writeCursor][TargetSlot(j)] # StepTrust
       \/ newMoCoeffs[TargetSlot(j)] # StepSol
       \/ subconverger_indices[j] # TargetSlot(j)

\* The result can be accepted exactly when some u in [0, 1) lies below
\* 1 - s + t, and rejected exactly when some u in [0, 1) does not.
DrawDecides ==
    /\ (ENABLED StepAccepted) <=> Gt(AcceptanceLevel, 0)
    /\ (ENABLED StepRejected) <=> ~Ge(AcceptanceLevel, TOne)

\* C23 as stated: the result of any agent, of non-zero trust t, aimed at a
\* slot of committed trust s, is written iff u < clamp(1 - s + t, 0, 1) for a
\* uniform u in [0, 1): with t >= s it cannot be rejected, with t < s it can be
\* accepted and can be rejected.
C23_EveryResultDrawn ==
    (ResultPending /\ ~IsNaN(StepTrust) /\ ~IsNaN(TargetTrust))
    => /\ DrawDecides
       /\ StepTrust >= TargetTrust => ~ENABLED StepRejected
       /\ StepTrust < TargetTrust => (ENABLED StepAccepted /\ ENABLED StepRejected)

\* The agent draws: there are several agents and it is not agent 0 with a
\* positive committed trust in slot 0 (line 398).
AgentDraws == threads > 1 /\ ~(j = 0 /\ Gt(current_trusts[readCursor][0], 0))

\* C23, amended: the draw decides for the agents that draw; the result of
\* agent 0 while slot 0 has a positive committed trust, and of a single agent,
\* is written without a draw.  A NaN level accepts no u.
C23_DrawnResultsOnly ==
    ResultPending
    => IF AgentDraws
       THEN /\ DrawDecides
            /\ Ge(StepTrust, TargetTrust) => ~ENABLED StepRejected
            /\ Lt(StepTrust, TargetTrust) => (ENABLED StepAccepted /\ ENABLED StepRejected)
       ELSE ENABLED StepAccepted /\ ~ENABLED StepRejected

\* A drawing agent whose result has a lower trust than its target slot.
C23_Witness ==
    /\ ResultPending /\ AgentDraws /\ j > 0
    /\ Lt(StepTrust, TargetTrust)

\* ---------------------------------------------------------------------- C24
\* The cyclic distance of ring position r from the read cursor.
Age(r) == (readCursor - r) % memSize

\* C24: whenever the policy runs, the sampling weight of every retained trust
\* is the trust recorded when its snapshot was committed, multiplied by
\* memScale ^ age, however many cycles have invoked the policy before.
C24_WeightIsRecordedTrustDecayedByAge ==
    AtReassign
    => \A r \in Written : \A s \in Slots :
          DecayedTrusts(readCursor)[r][s] = ScaleTrust(recorded_trusts[r][s], Age(r))

\* ---------------------------------------------------------------------- C25
\* Slot s received no result in the cycle: the one agent aimed at it had a
\* result of trust 0, which line 387 drops.
NoAcceptedStep(s) ==
    \A a \in Slots :
        TargetSlot(a) = s => getLocalSolAndTrust(sc_mo_coeffs[a])[2] = 0

\* C25: a slot the policy reset in a cycle, and into which no step result was
\* accepted, enters the lowest-energy comparison of that cycle's safety check
\* with the sentinel as its energy.
C25_ResetSlotKeepsSentinel ==
    pc = "check"
    => \A s \in purge_indices : NoAcceptedStep(s) => NewEnergies[s] = FltMax

\* ---------------------------------------------------------------------- C26
\* C26: when no slot qualifies for purging in a cycle after the first with
\* several agents, the cycle proceeds to the agents' steps without an error,
\* no coefficients are overwritten and every agent steps from the last
\* committed coefficients of its slot.
C26_EmptyPurgeProceeds ==
    [][(AtReassign /\ DescribedPurgeSet = {})
       => /\ pc' = "step" /\ error' = error
          /\ mo_coeffs' = mo_coeffs
          /\ \A a \in Slots :
                sc_mo_coeffs'[a] = mo_coeffs[readCursor][subconverger_indices[a]]]_vars

\* ---------------------------------------------------------------------- C27
\* Slot s is about to be committed with the result accepted into it in this
\* cycle, or with the coefficients and the trust of the previously committed
\* snapshot.
AcceptedPair(s) ==
    \E a \in Slots :
        LET res == getLocalSolAndTrust(sc_mo_coeffs[a])
        IN  /\ TargetSlot(a) = s /\ res[2] # 0
            /\ newMoCoeffs[s] = res[1]
            /\ current_trusts[writeCursor][s] = res[2]
CarriedPair(s) ==
    /\ newMoCoeffs[s] = mo_coeffs[last_write][s]
    /\ current_trusts[writeCursor][s] = recorded_trusts[last_write][s]

\* C27: at the commit of every cycle after the first, for every ring depth,
\* every slot of the write position pairs coefficients and trust of one
\* origin: a result accepted in this cycle, or the preceding snapshot.
C27_TrustBelongsToCoefficients ==
    (pc = "check" /\ cycle > 0)
    => \A s \in Slots : AcceptedPair(s) \/ CarriedPair(s)

\* ---------------------------------------------------------------------- C28
\* C28: in every run of an object, the first or a later one, throughout every
\* cycle after the first the read position is the ring position that the
\* preceding cycle of the same run committed.
C28_EveryRunReadsLastCommitted ==
    (InCycle /\ cycle > 0) => readCursor = last_write

\* ---------------------------------------------------------------------- C29
\* C29: after every call of converge() that returned, the converged flag of
\* the wrapped solver equals the flag the call returned.
C29_SolverFlagMatchesReturn ==
    pc = "done" => mf.converged = scf_conv


\* The purge fraction last handed to the object through set() or kernel(),
\* when only one of the two was used (lines 218 and 227); NoneC otherwise.
PassedPurge ==
    IF purgeSolvers # NoneC /\ _purgeSolvers = NoneC THEN purgeSolvers
    ELSE IF _purgeSolvers # NoneC /\ purgeSolvers = NoneC THEN _purgeSolvers
    ELSE NoneC

\* Lines 334-350 computed with the purge fraction p.
PurgeSetWith(row, p) ==
    LET sorted_indices == ArgSort(row, Slots)
        n == SetMin({(threads * p) \div PurgeDen, threads})
        bottom == {sorted_indices[i] : i \in 1 .. n}
        nonunique == {i \in Slots : \E k \in Slots :
                         k < i /\ ~IsNaN(row[i]) /\ row[k] = row[i]}
        zero_indices == {i \in Slots : Le(row[i], convergence_thresh)}
        cand == bottom \cup nonunique \cup zero_indices
    IN  IF 0 \in cand /\ Gt(row[0], 0) THEN cand \ {0} ELSE cand

\* C30: once a purge fraction has been passed to set() or kernel(), every
\* purge-set computation of a cycle yields the purge set of that fraction.
C30_PassedPurgeFractionUsed ==
    [][(Reassign /\ PassedPurge # NoneC)
         => purge_indices' = PurgeSetWith(current_trusts[readCursor], PassedPurge)]_vars
=============================================================================
